---- MODULE Spec2Model ----
(***************************************************************************)
(* Model of src/github.ts: getMatchingIssues, the cursor-driven pagination *)
(* loop over the GitHub GraphQL search, and formatNameWithOwner.           *)
(*                                                                         *)
(* Each invocation of the async function getMatchingIssues is a process    *)
(* with its own locals (queryText, cursor, hasNextPage, issues, results)   *)
(* and its own promise (outcome).  The remote service is the environment:  *)
(* it settles a request in flight with null, a page or a rejection.        *)
(***************************************************************************)
EXTENDS Integers, Sequences, FiniteSets, TLC

VARIABLES context, pc, searchQuery, queryText, cursor, hasNextPage, issues,
          results, outcome, inFlight, callLog, respLog

vars == <<context, pc, searchQuery, queryText, cursor, hasNextPage, issues,
          results, outcome, inFlight, callLog, respLog>>

(* ------------------------------ bounds -------------------------------- *)

\* Number of requests the remote service settles in one run; a request
\* issued after that stays in flight forever (the call never resolves).
MaxCalls == 3

\* Invocations of getMatchingIssues that may overlap.
Invocations == {1, 2}
\* The invocation of the sequential specification.
Solo == {1}

(* --------------------------- values ----------------------------------- *)

\* JavaScript null (cursor: string | null, results: QueryResponse | null).
Null == "null"
\* A local that has not been initialised yet (invocation not started).
Undefined == "undefined"

\* github.context.repo values.
Contexts == {[owner |-> "acme", repo |-> "widgets"], [owner |-> "org", repo |-> "repo"]}
\* searchQuery arguments.
Predicates == {"", "is:open label:bug"}
\* token arguments.
Tokens == {"token"}
\* endCursor values of the remote service.
Cursors == {"c1", "c2"}
\* Errors a remote call may reject with.
Errors == {"E1", "E2"}

\* The labels field of an Issue: an object holding an array of {name}.
LabelsObject(names) ==
    [kind |-> "object", nodes |-> [k \in 1..Len(names) |-> [name |-> names[k]]]]

\* Issue-shaped nodes the remote service returns.
IssueA == [title |-> "A", url |-> "u1", labels |-> LabelsObject(<<>>), createdAt |-> "t1"]
IssueB == [title |-> "B", url |-> "u2", labels |-> LabelsObject(<<"bug">>), createdAt |-> "t2"]

\* search.nodes of one page.
NodeLists == {<<>>, <<IssueA>>, <<IssueB, IssueA>>}

\* The GraphQL document: a fixed template.
query == [first |-> 100, type |-> "ISSUE", labelsFirst |-> 100]

\* QueryResponse
QueryResponse ==
    [type : {"page"},
     search : [pageInfo : [endCursor : Cursors, hasNextPage : BOOLEAN],
               nodes : NodeLists]]

\* What a remote call settles with: GraphQlQueryResponseData or a rejection.
Responses ==
    {[type |-> "null"]} \cup QueryResponse \cup [type : {"error"}, error : Errors]

NoResults == [type |-> "none"]
Pending == [kind |-> "pending"]

(* --------------------------- pure functions --------------------------- *)

\* Variant: name and owner in the wrong order.
formatNameWithOwner_swapped(nameWithOwner) ==
    nameWithOwner.repo \o "/" \o nameWithOwner.owner

formatNameWithOwner(nameWithOwner) ==
    nameWithOwner.owner \o "/" \o nameWithOwner.repo

\* const queryText = `repo:${formatNameWithOwner(context.repo)} ${searchQuery}`
QueryText(ctx, q) == "repo:" \o formatNameWithOwner(ctx) \o " " \o q

\* The label names of a node, and an array of names.
NamesOf(node) == [k \in 1..Len(node.labels.nodes) |-> node.labels.nodes[k].name]
NameList(names) == [kind |-> "array", items |-> names]

\* Variant: the map flattens labels.nodes[].name into an array of names.
MapIssue_flatten(issue) == [issue EXCEPT !.labels = NameList(NamesOf(issue))]

\* (issue) => issue
MapIssue(issue) == issue

\* results.search.nodes.map((issue) => issue)
MapNodes(nodes) == [k \in 1..Len(nodes) |-> MapIssue(nodes[k])]

\* Variant: the cursor is only set from the first page.
NextCursor_first(cur, res) ==
    IF res.type = "page" /\ cur = Null THEN res.search.pageInfo.endCursor ELSE cur

\* Variant: nodes already accumulated are skipped (deduplication).
NextIssues_dedup(iss, res) ==
    IF res.type = "page"
    THEN iss \o SelectSeq(res.search.nodes, LAMBDA x : \A k \in 1..Len(iss) : iss[k] # x)
    ELSE iss

\* Variant: a null response drops what was accumulated.
NextIssues_nullResets(iss, res) ==
    IF res.type = "page" THEN iss \o MapNodes(res.search.nodes) ELSE <<>>

\* Variant: any non-null response continues the loop.
NextHasNextPage_anyPage(res) == res.type = "page"

\* The three assignments of the loop body; res is null or a QueryResponse.
NextCursor(cur, res) ==
    IF res.type = "page" THEN res.search.pageInfo.endCursor ELSE cur

NextIssues(iss, res) ==
    IF res.type = "page" THEN iss \o MapNodes(res.search.nodes) ELSE iss

NextHasNextPage(res) ==
    IF res.type = "page" THEN res.search.pageInfo.hasNextPage ELSE FALSE

(* ------------------------------ state --------------------------------- *)

Init ==
    /\ context \in Contexts
    /\ pc = [i \in Invocations |-> "idle"]
    /\ searchQuery = [i \in Invocations |-> Undefined]
    /\ queryText = [i \in Invocations |-> Undefined]
    /\ cursor = [i \in Invocations |-> Undefined]
    /\ hasNextPage = [i \in Invocations |-> FALSE]
    /\ issues = [i \in Invocations |-> <<>>]
    /\ results = [i \in Invocations |-> NoResults]
    /\ outcome = [i \in Invocations |-> Pending]
    /\ inFlight = {}
    /\ callLog = [i \in Invocations |-> <<>>]
    /\ respLog = [i \in Invocations |-> <<>>]

\* Requests of invocation i that are in flight.
InFlightOf(i) == {r \in inFlight : r.inv = i}

\* Number of requests the remote service has settled.
RECURSIVE Settled(_)
Settled(S) ==
    IF S = {} THEN 0
    ELSE LET i == CHOOSE j \in S : TRUE IN Len(respLog[i]) + Settled(S \ {i})

(* ------------------------------ actions ------------------------------- *)

\* Variant: the next call is issued without awaiting the previous one.
IssueCall_prefetch(i) ==
    /\ pc[i] \in {"loop", "await"}
    /\ hasNextPage[i]
    /\ Cardinality(InFlightOf(i)) < 2
    /\ LET variables == [cursor |-> cursor[i], searchQuery |-> queryText[i]]
           request == [inv |-> i, n |-> Len(callLog[i]) + 1,
                       query |-> query, variables |-> variables]
       IN /\ inFlight' = inFlight \cup {request}
          /\ callLog' = [callLog EXCEPT ![i] = Append(@, variables)]
    /\ pc' = [pc EXCEPT ![i] = "await"]
    /\ UNCHANGED <<context, searchQuery, queryText, cursor, hasNextPage, issues,
                   results, outcome, respLog>>

\* Variant: cursor is one variable shared by all invocations.
Apply_shared(i) ==
    /\ pc[i] = "resumed"
    /\ results[i].type # "error"
    /\ cursor' = [j \in Invocations |->
                    IF pc[j] = "idle" THEN cursor[j] ELSE NextCursor(cursor[i], results[i])]
    /\ issues' = [issues EXCEPT ![i] = NextIssues(@, results[i])]
    /\ hasNextPage' = [hasNextPage EXCEPT ![i] = NextHasNextPage(results[i])]
    /\ pc' = [pc EXCEPT ![i] = "loop"]
    /\ UNCHANGED <<context, searchQuery, queryText, results, outcome, inFlight,
                   callLog, respLog>>

\* Variant: the rejection is caught and the partial result returned.
Throw_partial(i) ==
    /\ pc[i] = "resumed"
    /\ results[i].type = "error"
    /\ outcome' = [outcome EXCEPT ![i] = [kind |-> "fulfilled", value |-> issues[i]]]
    /\ pc' = [pc EXCEPT ![i] = "done"]
    /\ UNCHANGED <<context, searchQuery, queryText, cursor, hasNextPage, issues,
                   results, inFlight, callLog, respLog>>

\* Variant: the loop gives up after two pages (a page cap).
Return_cap(i) ==
    /\ pc[i] = "loop"
    /\ ~hasNextPage[i] \/ Len(callLog[i]) >= 2
    /\ outcome' = [outcome EXCEPT ![i] = [kind |-> "fulfilled", value |-> issues[i]]]
    /\ pc' = [pc EXCEPT ![i] = "done"]
    /\ UNCHANGED <<context, searchQuery, queryText, cursor, hasNextPage, issues,
                   results, inFlight, callLog, respLog>>

\* getMatchingIssues(token, q) is called: the statements before the loop.
Start(i, token, q) ==
    /\ pc[i] = "idle"
    /\ searchQuery' = [searchQuery EXCEPT ![i] = q]
    /\ queryText' = [queryText EXCEPT ![i] = QueryText(context, q)]
    /\ cursor' = [cursor EXCEPT ![i] = Null]
    /\ hasNextPage' = [hasNextPage EXCEPT ![i] = TRUE]
    /\ issues' = [issues EXCEPT ![i] = <<>>]
    /\ pc' = [pc EXCEPT ![i] = "loop"]
    /\ UNCHANGED <<context, results, outcome, inFlight, callLog, respLog>>

\* while (hasNextPage) { await client.graphql(query, {cursor, searchQuery: queryText})
IssueCall(i) ==
    /\ pc[i] = "loop"
    /\ hasNextPage[i]
    /\ LET variables == [cursor |-> cursor[i], searchQuery |-> queryText[i]]
           request == [inv |-> i, n |-> Len(callLog[i]) + 1,
                       query |-> query, variables |-> variables]
       IN /\ inFlight' = inFlight \cup {request}
          /\ callLog' = [callLog EXCEPT ![i] = Append(@, variables)]
    /\ pc' = [pc EXCEPT ![i] = "await"]
    /\ UNCHANGED <<context, searchQuery, queryText, cursor, hasNextPage, issues,
                   results, outcome, respLog>>

\* The remote service settles the request of invocation i with response r.
Resolve(i, r) ==
    /\ pc[i] = "await"
    /\ Settled(Invocations) < MaxCalls
    /\ \E request \in InFlightOf(i) :
          inFlight' = inFlight \ {request}
    /\ results' = [results EXCEPT ![i] = r]
    /\ respLog' = [respLog EXCEPT ![i] = Append(@, r)]
    /\ pc' = [pc EXCEPT ![i] = "resumed"]
    /\ UNCHANGED <<context, searchQuery, queryText, cursor, hasNextPage, issues,
                   outcome, callLog>>

\* The await resumes with a value: if (results) {...} else {...}
Apply(i) ==
    /\ pc[i] = "resumed"
    /\ results[i].type # "error"
    /\ cursor' = [cursor EXCEPT ![i] = NextCursor(@, results[i])]
    /\ issues' = [issues EXCEPT ![i] = NextIssues(@, results[i])]
    /\ hasNextPage' = [hasNextPage EXCEPT ![i] = NextHasNextPage(results[i])]
    /\ pc' = [pc EXCEPT ![i] = "loop"]
    /\ UNCHANGED <<context, searchQuery, queryText, results, outcome, inFlight,
                   callLog, respLog>>

\* The await resumes with a rejection: nothing catches it, the promise of
\* getMatchingIssues rejects with the same reason.
Throw(i) ==
    /\ pc[i] = "resumed"
    /\ results[i].type = "error"
    /\ outcome' = [outcome EXCEPT ![i] = [kind |-> "rejected", reason |-> results[i].error]]
    /\ pc' = [pc EXCEPT ![i] = "failed"]
    /\ UNCHANGED <<context, searchQuery, queryText, cursor, hasNextPage, issues,
                   results, inFlight, callLog, respLog>>

\* The loop condition is false: return issues
Return(i) ==
    /\ pc[i] = "loop"
    /\ ~hasNextPage[i]
    /\ outcome' = [outcome EXCEPT ![i] = [kind |-> "fulfilled", value |-> issues[i]]]
    /\ pc' = [pc EXCEPT ![i] = "done"]
    /\ UNCHANGED <<context, searchQuery, queryText, cursor, hasNextPage, issues,
                   results, inFlight, callLog, respLog>>

\* The steps of the program (not of the remote service) of invocation i.
Program(i) == IssueCall(i) \/ Apply(i) \/ Throw(i) \/ Return(i)

Step(i) ==
    \/ \E token \in Tokens, q \in Predicates : Start(i, token, q)
    \/ IssueCall(i)
    \/ \E r \in Responses : Resolve(i, r)
    \/ Apply(i)
    \/ Throw(i)
    \/ Return(i)

\* One invocation.
Next == \E i \in Solo : Step(i)
Spec == Init /\ [][Next]_vars

\* One invocation, whose program steps are taken when enabled (the event
\* loop runs a continuation that is ready); the remote service owes nothing.
FairSpec == Spec /\ \A i \in Solo : WF_vars(Program(i))

\* Overlapping invocations.
NextConc == \E i \in Invocations : Step(i)
ConcSpec == Init /\ [][NextConc]_vars

(* --------------------------- properties ------------------------------- *)

Last(s) == s[Len(s)]
Front(s) == SubSeq(s, 1, Len(s) - 1)

IsPage(r) == r.type = "page"
IsNull(r) == r.type = "null"
IsError(r) == r.type = "error"
\* A response that ends the pagination.
Terminal(r) == IsNull(r) \/ (IsPage(r) /\ ~r.search.pageInfo.hasNextPage)
\* A response that continues it.
Continuing(r) == IsPage(r) /\ r.search.pageInfo.hasNextPage

AllPages(log) == \A n \in 1..Len(log) : IsPage(log[n])
NoErrors(log) == \A n \in 1..Len(log) : ~IsError(log[n])

\* The nodes of the pages of a log of responses, in arrival order.
RECURSIVE ReceivedNodes(_)
ReceivedNodes(log) ==
    IF log = <<>> THEN <<>>
    ELSE ReceivedNodes(Front(log)) \o
         (IF IsPage(Last(log)) THEN Last(log).search.nodes ELSE <<>>)

\* The sum of the page lengths of a log of responses.
RECURSIVE SumOfPageLengths(_)
SumOfPageLengths(log) ==
    IF log = <<>> THEN 0
    ELSE SumOfPageLengths(Front(log)) +
         (IF IsPage(Last(log)) THEN Len(Last(log).search.nodes) ELSE 0)

\* The responses invocation i has resumed with and handled.
Handled(i) == IF pc[i] = "resumed" THEN Front(respLog[i]) ELSE respLog[i]

Fulfilled(i) == outcome[i].kind = "fulfilled"
Rejected(i) == outcome[i].kind = "rejected"

\* C1: when every response so far is a page, the accumulator equals the
\* concatenation, in arrival order, of the nodes of the pages handled so far
\* (so its length is the sum of their lengths, duplicates included), and the
\* value returned is the concatenation of all the pages.
C1_Concatenation ==
    \A i \in Invocations :
        AllPages(respLog[i]) =>
            /\ issues[i] = ReceivedNodes(Handled(i))
            /\ Len(issues[i]) = SumOfPageLengths(Handled(i))
            /\ pc[i] = "done" =>
                  /\ Fulfilled(i)
                  /\ outcome[i].value = ReceivedNodes(respLog[i])

\* Two pages that share an issue were returned: the issue is there twice.
C1_Witness ==
    /\ pc[1] = "done"
    /\ Len(respLog[1]) = 3
    /\ AllPages(respLog[1])
    /\ outcome[1].value = <<IssueA, IssueB, IssueA, IssueA>>

\* C2: when a remote call rejects, getMatchingIssues rejects with the same
\* error, never fulfils (the accumulated issues are not returned), and issues
\* no further call: the rejected call stays the last one.
C2_ErrorPropagation ==
    \A i \in Invocations :
        /\ (respLog[i] # <<>> /\ IsError(Last(respLog[i]))) =>
              /\ pc[i] \in {"resumed", "failed"}
              /\ ~Fulfilled(i)
              /\ Len(callLog[i]) = Len(respLog[i])
              /\ InFlightOf(i) = {}
              /\ pc[i] = "failed" =>
                    outcome[i] = [kind |-> "rejected", reason |-> Last(respLog[i]).error]
        /\ Rejected(i) => (respLog[i] # <<>> /\ IsError(Last(respLog[i])))

\* The third call rejected with E2 after two non-empty pages.
C2_Witness ==
    /\ pc[1] = "failed"
    /\ Len(respLog[1]) = 3
    /\ issues[1] # <<>>
    /\ outcome[1] = [kind |-> "rejected", reason |-> "E2"]

\* C3: the cursor argument of the first call is null and the cursor argument
\* of call n+1 is the endCursor of the response to call n.
C3_CursorPropagation ==
    \A i \in Invocations : \A n \in 1..Len(callLog[i]) :
        IF n = 1
        THEN callLog[i][n].cursor = Null
        ELSE /\ n - 1 <= Len(respLog[i])
             /\ IsPage(respLog[i][n - 1])
             /\ callLog[i][n].cursor = respLog[i][n - 1].search.pageInfo.endCursor

\* Three calls were made, the second and third with different cursors.
C3_Witness ==
    /\ Len(callLog[1]) = 3
    /\ callLog[1][2].cursor = "c2"
    /\ callLog[1][3].cursor = "c1"

\* C4: a null response ends the pagination successfully: no further call,
\* no rejection, the accumulator is left as it was and is what is returned.
C4_NullTerminates ==
    \A i \in Invocations :
        (respLog[i] # <<>> /\ IsNull(Last(respLog[i]))) =>
            /\ pc[i] \in {"resumed", "loop", "done"}
            /\ ~Rejected(i)
            /\ Len(callLog[i]) = Len(respLog[i])
            /\ InFlightOf(i) = {}
            /\ issues[i] = ReceivedNodes(Front(respLog[i]))
            /\ pc[i] = "loop" => ~hasNextPage[i]
            /\ pc[i] = "done" =>
                  outcome[i] = [kind |-> "fulfilled", value |-> ReceivedNodes(Front(respLog[i]))]

\* The second call returned null and the first page was returned.
C4_Witness ==
    /\ pc[1] = "done"
    /\ Len(respLog[1]) = 2
    /\ IsNull(respLog[1][2])
    /\ outcome[1].value = <<IssueB, IssueA>>

\* The first terminal response of an error-free log, 0 if there is none.
FirstTerminal(log) ==
    IF \E n \in 1..Len(log) : Terminal(log[n])
    THEN CHOOSE n \in 1..Len(log) :
            Terminal(log[n]) /\ \A m \in 1..(n - 1) : ~Terminal(log[m])
    ELSE 0

\* C5: in an error-free invocation every call but the last was answered by a
\* page with hasNextPage = true; once a response is null or has
\* hasNextPage = false the number of calls is the index of that response
\* and stays so; the invocation is done only after such a response, and a
\* done invocation changes nothing any more.
C5_CallCount ==
    /\ [](\A i \in Invocations :
            NoErrors(respLog[i]) =>
               /\ \A n \in 1..(Len(callLog[i]) - 1) :
                     n <= Len(respLog[i]) /\ Continuing(respLog[i][n])
               /\ FirstTerminal(respLog[i]) # 0 =>
                     Len(callLog[i]) = FirstTerminal(respLog[i])
               /\ pc[i] = "done" =>
                     /\ FirstTerminal(respLog[i]) = Len(respLog[i])
                     /\ Len(callLog[i]) = Len(respLog[i])
                     /\ InFlightOf(i) = {}
               /\ (pc[i] = "done" /\ Len(respLog[i]) = 1 /\ IsPage(respLog[i][1])) =>
                     outcome[i].value = respLog[i][1].search.nodes)
    /\ [][\A i \in Invocations :
            pc[i] = "done" =>
               /\ pc'[i] = "done"
               /\ callLog'[i] = callLog[i]
               /\ outcome'[i] = outcome[i]]_vars

\* The first call returned a non-empty page with hasNextPage = false.
C5_Witness ==
    /\ pc[1] = "done"
    /\ Len(callLog[1]) = 1
    /\ IsPage(respLog[1][1])
    /\ outcome[1].value = <<IssueB, IssueA>>

\* C6: every call of an invocation carries the same searchQuery,
\* "repo:" + owner + "/" + repo + " " + predicate, and the same document.
C6_QueryText ==
    \A i \in Invocations : \A n \in 1..Len(callLog[i]) :
        /\ callLog[i][n].searchQuery =
              "repo:" \o context.owner \o "/" \o context.repo \o " " \o searchQuery[i]
        /\ (context = [owner |-> "acme", repo |-> "widgets"]
              /\ searchQuery[i] = "is:open label:bug") =>
              callLog[i][n].searchQuery = "repo:acme/widgets is:open label:bug"
        /\ (context = [owner |-> "org", repo |-> "repo"] /\ searchQuery[i] = "") =>
              callLog[i][n].searchQuery = "repo:org/repo "
        /\ \A r \in InFlightOf(i) :
              r.query = query /\ r.variables = callLog[i][r.n]

\* Three calls were made for acme/widgets with "is:open label:bug".
C6_Witness ==
    /\ context = [owner |-> "acme", repo |-> "widgets"]
    /\ searchQuery[1] = "is:open label:bug"
    /\ Len(callLog[1]) = 3
    /\ callLog[1][2].cursor # callLog[1][3].cursor

\* C7 as claimed: every returned Issue carries its labels as the sequence
\* of the label names of the node it came from.
C7_LabelsAreNames ==
    \A i \in Invocations :
        Fulfilled(i) =>
            \A k \in 1..Len(outcome[i].value) :
                /\ k <= Len(ReceivedNodes(respLog[i]))
                /\ outcome[i].value[k].labels =
                      NameList(NamesOf(ReceivedNodes(respLog[i])[k]))

\* C7 amended: every returned Issue is the response node as received; its
\* labels is the object {nodes: [{name}]}, not a sequence of names.
C7_LabelsAsReceived ==
    \A i \in Invocations :
        Fulfilled(i) =>
            \A k \in 1..Len(outcome[i].value) :
                /\ k <= Len(ReceivedNodes(respLog[i]))
                /\ outcome[i].value[k] = ReceivedNodes(respLog[i])[k]
                /\ outcome[i].value[k].labels =
                      LabelsObject(NamesOf(ReceivedNodes(respLog[i])[k]))

\* An issue with the label "bug" and one without labels were returned.
C7_Witness ==
    /\ Fulfilled(1)
    /\ Len(outcome[1].value) = 2
    /\ outcome[1].value[1].labels = [kind |-> "object", nodes |-> <<[name |-> "bug"]>>]
    /\ outcome[1].value[2].labels = [kind |-> "object", nodes |-> <<>>]

\* C8: an invocation has at most one request in flight, and while it has
\* one it is suspended with every earlier response handled.
C8_OneInFlight ==
    \A i \in Invocations :
        /\ Cardinality(InFlightOf(i)) <= 1
        /\ \A r \in InFlightOf(i) :
              /\ pc[i] = "await"
              /\ r.n = Len(callLog[i])
              /\ Len(respLog[i]) = r.n - 1
              /\ issues[i] = ReceivedNodes(respLog[i])
              /\ r.variables.cursor = cursor[i]
              /\ hasNextPage[i]

\* The third call is in flight.
C8_Witness ==
    /\ pc[1] = "await"
    /\ \E r \in inFlight : r.inv = 1 /\ r.n = 3 /\ r.variables.cursor = "c2"

\* C9: an invocation is done only after a response that is null or has
\* hasNextPage = false; after such a response it does get done; after a
\* response with hasNextPage = true it issues the next call; and it leaves
\* the await only when the call is settled.
C9_Termination ==
    /\ [](\A i \in Solo :
            pc[i] = "done" => (respLog[i] # <<>> /\ Terminal(Last(respLog[i]))))
    /\ \A i \in Solo :
          (pc[i] = "resumed" /\ Terminal(Last(respLog[i]))) ~> (pc[i] = "done")
    /\ \A i \in Solo : \A n \in 1..MaxCalls :
          (pc[i] = "resumed" /\ Len(respLog[i]) = n /\ Continuing(Last(respLog[i])))
             ~> (pc[i] = "await" /\ Len(callLog[i]) = n + 1)
    /\ [][\A i \in Solo :
            (pc[i] = "await" /\ pc'[i] # "await") =>
               /\ pc'[i] = "resumed"
               /\ Len(respLog'[i]) = Len(respLog[i]) + 1]_vars

\* Every response had hasNextPage = true and the last call is never settled.
C9_Witness ==
    /\ pc[1] = "await"
    /\ Len(respLog[1]) = MaxCalls
    /\ Len(callLog[1]) = MaxCalls + 1

\* The locals and the promise of invocation i.
Locals(i) == <<searchQuery[i], queryText[i], cursor[i], hasNextPage[i], issues[i],
               results[i], outcome[i], callLog[i], respLog[i]>>

\* C10: a step of one invocation leaves the other invocation's cursor,
\* has-more flag, accumulator and promise alone; every cursor an invocation
\* passes is the endCursor of its own previous response, and what it returns
\* is the concatenation of its own pages.
C10_Isolation ==
    /\ [][\A i \in Invocations : pc'[i] = pc[i] => Locals(i)' = Locals(i)]_vars
    /\ [](\A i \in Invocations :
            /\ pc[i] \in {"loop", "await", "done"} =>
                  cursor[i] = (IF \E n \in 1..Len(respLog[i]) : IsPage(respLog[i][n])
                               THEN respLog[i][CHOOSE n \in 1..Len(respLog[i]) :
                                       /\ IsPage(respLog[i][n])
                                       /\ \A m \in (n + 1)..Len(respLog[i]) :
                                             ~IsPage(respLog[i][m])].search.pageInfo.endCursor
                               ELSE Null)
            /\ \A r \in InFlightOf(i) : r.variables.cursor = cursor[i]
            /\ Fulfilled(i) => outcome[i].value = ReceivedNodes(respLog[i]))

\* Both invocations are past their first page, with different cursors, and
\* one of them has returned.
C10_Witness ==
    /\ pc[1] = "await"
    /\ cursor[1] = "c1"
    /\ pc[2] = "done"
    /\ cursor[2] = "c2"
    /\ Len(respLog[1]) = 1
    /\ Len(respLog[2]) = 2
    /\ outcome[2].value = <<IssueA, IssueB, IssueA>>

====
